---- MODULE Spec2Model ----
(***************************************************************************)
(* A model of get_mental_maps.py: one run of the extraction pipeline       *)
(* (connect, fetch and sort, filter, report, export), and its pure string  *)
(* helpers (get_pad1, get_pad2, print_row, build_output_file_path).        *)
(*                                                                         *)
(* A Python str is modelled as a sequence of one-character strings, so     *)
(* that len, +, *, strip, rstrip, translate and replace are computed       *)
(* character by character as the interpreter computes them.                *)
(***************************************************************************)
EXTENDS Integers, Sequences, FiniteSets

VARIABLES
    pc,        \* position of the run in main()
    table,     \* rows of the maps table, in the order fetchall() returns them
    argv1,     \* sys.argv[1], the output directory argument
    conn,      \* the handle connect() returned: 0 is None, k > 0 a connection
    attempts,  \* number of psycopg2.connect calls made
    opened,    \* set of connections psycopg2.connect has established
    closed,    \* set of connections conn.close() has been called on
    maps,      \* the list get_maps returned to main
    pos,       \* number of items of maps the for loop has consumed
    n,         \* main's running counter
    out,       \* lines printed to stdout, each a sequence of string pieces
    printed,   \* history: <<n, map id>> of each print_row call
    calls,     \* history: map id of each write_map_to_file call
    dirExists, \* whether the output directory exists on disk
    files,     \* the output directory's files: path -> content
    call,      \* arguments of the pure-function call under study
    ret        \* its result: [done |-> BOOLEAN, val |-> ...]

vars == <<pc, table, argv1, conn, attempts, opened, closed, maps, pos, n, out,
          printed, calls, dirExists, files, call, ret>>

runVars == <<pc, table, argv1, conn, attempts, opened, closed, maps, pos, n,
             out, printed, calls, dirExists, files>>

-----------------------------------------------------------------------------
(* Bounds of the model. *)

MaxRecords == 2     \* rows in the maps table
MaxTime == 1        \* modified_at ranges over MaxTime + 1 instants
MaxLocLen == 3      \* length of a location given to build_output_file_path
MaxDirLen == 2      \* length of a directory given to build_output_file_path
MaxDigit == 1       \* ids are the numbers 10 * a + b, a and b in 0..MaxDigit
MaxPairLen == 2     \* length of each of two locations compared with each other
MaxOver == 2        \* a location given to get_pad2 is at most PadWidth + MaxOver long
MaxSzLen == 2       \* length of the size string given to get_pad2

-----------------------------------------------------------------------------
(* Python str operations. *)

\* s * k for a one-character s: the empty string when k <= 0.
Rep(c, k) == [i \in 1..k |-> c]

Digit(d) == CASE d = 0 -> "0" [] d = 1 -> "1" [] d = 2 -> "2" [] d = 3 -> "3"
              [] d = 4 -> "4" [] d = 5 -> "5" [] d = 6 -> "6" [] d = 7 -> "7"
              [] d = 8 -> "8" [] d = 9 -> "9"

RECURSIVE StrNat(_)
StrNat(k) == IF k < 10 THEN <<Digit(k)>>
             ELSE StrNat(k \div 10) \o <<Digit(k % 10)>>

\* str(k) for an int k.
Str(k) == IF k < 0 THEN <<"-">> \o StrNat(-k) ELSE StrNat(k)

\* string.whitespace and string.punctuation. The backquote, the one character
\* of string.punctuation that cannot be written in a string here, is left out;
\* no string of the model contains it.
Whitespace == {" ", "\t", "\n", "\r", "\f"}

Punctuation == {"!", "\"", "#", "$", "%", "&", "'", "(", ")", "*", "+", ",",
                "-", ".", "/", ":", ";", "<", "=", ">", "?", "@", "[", "\\",
                "]", "^", "_", "{", "|", "}", "~"}

RECURSIVE RStripChars(_, _)
RStripChars(s, cs) ==
    IF s # <<>> /\ s[Len(s)] \in cs
    THEN RStripChars(SubSeq(s, 1, Len(s) - 1), cs)
    ELSE s

RECURSIVE LStripChars(_, _)
LStripChars(s, cs) ==
    IF s # <<>> /\ s[1] \in cs THEN LStripChars(Tail(s), cs) ELSE s

\* s.rstrip("/")
RStripSlash(s) == RStripChars(s, {"/"})

\* s.strip()
Strip(s) == LStripChars(RStripChars(s, Whitespace), Whitespace)

\* s.translate(None, deletechars)
Translate(s, deletechars) == SelectSeq(s, LAMBDA c : c \notin deletechars)

\* s.replace(old, new) for one-character old and new
Replace(s, old, new) == [i \in 1..Len(s) |-> IF s[i] = old THEN new ELSE s[i]]

-----------------------------------------------------------------------------
(* The pure helpers of the report and of the path. *)

PadWidth == 40

get_pad1(k) ==
    IF k < 10 THEN <<" ", " ", " ">>
    ELSE IF k < 100 THEN <<" ", " ">>
    ELSE IF k < 1000 THEN <<" ">>
    ELSE <<>>

\* get_pad2 with a floor of one space between the two strings.
get_pad2_AtLeastOne(s1, s2) ==
    LET k == PadWidth - Len(s1) - Len(s2) IN Rep(" ", IF k < 1 THEN 1 ELSE k)

get_pad2(s1, s2) == Rep(" ", PadWidth - Len(s1) - Len(s2))

\* The line print_row prints.
print_row(k, loc, sz, last_modified) ==
    get_pad1(k) \o Str(k) \o <<".", " ">> \o loc \o get_pad2(loc, sz) \o
    sz \o Rep(" ", 13) \o last_modified

\* build_output_file_path with the spaces replaced before the punctuation is
\* removed, so that the underscores are removed with it.
build_output_file_path_ReplaceFirst(dir, loc, id) ==
    LET clean_dir == RStripSlash(dir)
        clean_loc == Translate(Replace(Strip(loc), " ", "_"), Punctuation)
    IN  clean_dir \o <<"/", "s", "s", "m", "-">> \o clean_loc \o <<"-">> \o
        Str(id) \o <<".", "j", "s", "o", "n">>

\* build_output_file_path without the id.
build_output_file_path_NoId(dir, loc, id) ==
    LET clean_dir == RStripSlash(dir)
        clean_loc == Replace(Translate(Strip(loc), Punctuation), " ", "_")
    IN  clean_dir \o <<"/", "s", "s", "m", "-">> \o clean_loc \o
        <<".", "j", "s", "o", "n">>

\* build_output_file_path without the "-" between the location and the id.
build_output_file_path_NoDash(dir, loc, id) ==
    LET clean_dir == RStripSlash(dir)
        clean_loc == Replace(Translate(Strip(loc), Punctuation), " ", "_")
    IN  clean_dir \o <<"/", "s", "s", "m", "-">> \o clean_loc \o
        Str(id) \o <<".", "j", "s", "o", "n">>

build_output_file_path(dir, loc, id) ==
    LET clean_dir == RStripSlash(dir)
        clean_loc == Replace(Translate(Strip(loc), Punctuation), " ", "_")
    IN  clean_dir \o <<"/", "s", "s", "m", "-">> \o clean_loc \o <<"-">> \o
        Str(id) \o <<".", "j", "s", "o", "n">>

-----------------------------------------------------------------------------
(* Calls of the pure helpers on inputs drawn from bounded sets. *)

\* The strings over alphabet A of length at most k.
Strings(A, k) == UNION {[1..m -> A] : m \in 0..k}

LocChars == {"a", "1", " ", "-", "_"}
DirChars == {"d", "/"}
PairChars == {"a", " ", "-", "1"}
Ids == {10 * a + b : a, b \in 0..MaxDigit}

NoCall == [fn |-> "none"]
NoRet == [done |-> FALSE, val |-> <<>>]

\* The state of a run that has not started, with no table and no directory.
Idle ==
    /\ pc = "idle" /\ table = <<>> /\ argv1 = <<>> /\ conn = 0
    /\ attempts = 0 /\ opened = {} /\ closed = {} /\ maps = <<>> /\ pos = 0
    /\ n = 0 /\ out = <<>> /\ printed = <<>> /\ calls = <<>>
    /\ dirExists = FALSE /\ files = <<>>

InitPath ==
    /\ Idle
    /\ \E d \in Strings(DirChars, MaxDirLen), l \in Strings(LocChars, MaxLocLen),
          i \in Ids :
          call = [fn |-> "build_output_file_path", dir |-> d, loc |-> l, id |-> i]
    /\ ret = NoRet

CallBuildPath ==
    /\ call.fn = "build_output_file_path" /\ ~ret.done
    /\ ret' = [done |-> TRUE,
               val |-> build_output_file_path(call.dir, call.loc, call.id)]
    /\ UNCHANGED <<runVars, call>>

SpecPath == InitPath /\ [][CallBuildPath]_vars

\* Two locations and two distinct ids under one directory.
InitPair ==
    /\ Idle
    /\ \E d \in {<<"d">>, <<"d", "/">>},
          l1, l2 \in Strings(PairChars, MaxPairLen), i1, i2 \in Ids :
          /\ i1 < i2
          /\ call = [fn |-> "pair", dir |-> d, loc1 |-> l1, id1 |-> i1,
                     loc2 |-> l2, id2 |-> i2]
    /\ ret = NoRet

CallBuildPair ==
    /\ call.fn = "pair" /\ ~ret.done
    /\ ret' = [done |-> TRUE,
               val |-> <<build_output_file_path(call.dir, call.loc1, call.id1),
                         build_output_file_path(call.dir, call.loc2, call.id2)>>]
    /\ UNCHANGED <<runVars, call>>

SpecPair == InitPair /\ [][CallBuildPair]_vars

SampleStamp == <<"2", "0", "1", "9", "-", "0", "3", "-", "0", "1", " ",
                 "1", "0", ":", "1", "5">>

InitPad ==
    /\ Idle
    /\ \E k \in 0..(PadWidth + MaxOver), j \in 1..MaxSzLen,
          r \in {1, 9, 10, 99, 100, 999, 1000} :
          call = [fn |-> "print_row", n |-> r, loc |-> Rep("a", k),
                  sz |-> Rep("7", j), last_modified |-> SampleStamp]
    /\ ret = NoRet

CallPrintRow ==
    /\ call.fn = "print_row" /\ ~ret.done
    /\ ret' = [done |-> TRUE,
               val |-> [pad |-> get_pad2(call.loc, call.sz),
                        row |-> print_row(call.n, call.loc, call.sz,
                                          call.last_modified)]]
    /\ UNCHANGED <<runVars, call>>

SpecPad == InitPad /\ [][CallPrintRow]_vars

-----------------------------------------------------------------------------
(* Properties of the pure helpers. *)

Range(s) == {s[i] : i \in 1..Len(s)}

\* The directory part the path is to start with: the one prefix D of dir
\* that does not end in "/" and is followed in dir by "/" characters only.
TrimmedDir(dir) ==
    CHOOSE D \in {SubSeq(dir, 1, m) : m \in 0..Len(dir)} :
        /\ (D = <<>> \/ D[Len(D)] # "/")
        /\ \A i \in (Len(D) + 1)..Len(dir) : dir[i] = "/"

\* The location part the path is to hold: the stretch of loc between its
\* surrounding whitespace, without its punctuation characters, with "_" for
\* each space left.
TrimmedLoc(loc) ==
    LET inner == {i \in 1..Len(loc) : loc[i] \notin Whitespace}
        core == {i \in 1..Len(loc) :
                    /\ \E a \in inner : a <= i
                    /\ \E b \in inner : i <= b
                    /\ loc[i] \notin Punctuation}
        nth[k \in 0..Len(loc)] ==
            IF k = 0 THEN 0
            ELSE CHOOSE i \in core :
                    i > nth[k - 1] /\ \A j \in core : j > nth[k - 1] => i <= j
    IN  [k \in 1..Cardinality(core) |->
            IF loc[nth[k]] = " " THEN "_" ELSE loc[nth[k]]]

ExpectedPath(dir, loc, id) ==
    TrimmedDir(dir) \o <<"/", "s", "s", "m", "-">> \o TrimmedLoc(loc) \o
    <<"-">> \o Str(id) \o <<".", "j", "s", "o", "n">>

\* The location part of the path returned: what stands between
\* D + "/ssm-" and "-" + str(id) + ".json".
PathLoc ==
    SubSeq(ret.val, Len(TrimmedDir(call.dir)) + 6,
           Len(ret.val) - Len(Str(call.id)) - 6)

\* C5 as stated: build_output_file_path returns D + "/ssm-" + L + "-" +
\* str(id) + ".json", D the directory without its trailing "/" characters, L
\* the location trimmed, without punctuation, spaces replaced by "_"; and L
\* holds no punctuation character and no space.
C5_PathExactNoPunctuation ==
    ret.done =>
        /\ ret.val = ExpectedPath(call.dir, call.loc, call.id)
        /\ \A c \in Range(PathLoc) : c \notin Punctuation /\ c # " "

\* C5 as amended: the path is exactly D + "/ssm-" + L + "-" + str(id) +
\* ".json" with D and L as above; L holds no space, and no punctuation
\* character other than the "_" that stands for a space.
C5_PathExact ==
    ret.done =>
        /\ ret.val = ExpectedPath(call.dir, call.loc, call.id)
        /\ \A c \in Range(PathLoc) : c # " " /\ (c \in Punctuation => c = "_")

\* A call whose directory ends in "/" and whose location has surrounding
\* whitespace, punctuation and an inner space has returned.
C5_Witness ==
    /\ ret.done
    /\ call.fn = "build_output_file_path"
    /\ call.dir # <<>> /\ call.dir[Len(call.dir)] = "/"
    /\ Range(call.loc) \cap Punctuation # {}
    /\ "_" \in Range(PathLoc)

\* C4: under one directory, two locations (equal or not) with two distinct
\* non-negative ids give two different paths.
C4_DistinctIdsDistinctPaths ==
    (ret.done /\ call.id1 # call.id2) => ret.val[1] # ret.val[2]

\* Two different locations that sanitize to the same text, with distinct ids,
\* have had their paths built.
C4_Witness ==
    /\ ret.done
    /\ call.fn = "pair"
    /\ call.loc1 # call.loc2
    /\ call.id1 # call.id2
    /\ TrimmedLoc(call.loc1) = TrimmedLoc(call.loc2)
    /\ TrimmedLoc(call.loc1) # <<>>

\* Where the location starts in a printed row: after the row number, right
\* aligned to four characters, and ". ".
LocStart(k) == (IF Len(Str(k)) < 4 THEN 4 ELSE Len(Str(k))) + 3

\* C10: get_pad2(loc, sz) is 40 - len(loc) - len(sz) spaces when that is
\* not negative, making loc + padding + sz 40 characters long, and the empty
\* string otherwise, in which case the row has sz right after loc.
C10_PadNeverNegative ==
    ret.done =>
        LET loc == call.loc
            sz == call.sz
            pad == ret.val.pad
            row == ret.val.row
            k == LocStart(call.n)
        IN  /\ Range(pad) \subseteq {" "}
            /\ Len(loc) + Len(sz) <= PadWidth =>
                  /\ Len(pad) = PadWidth - Len(loc) - Len(sz)
                  /\ Len(loc \o pad \o sz) = PadWidth
            /\ Len(loc) + Len(sz) > PadWidth =>
                  /\ pad = <<>>
                  /\ SubSeq(row, k, k + Len(loc) + Len(sz) - 1) = loc \o sz
            /\ SubSeq(row, k, k + Len(loc) - 1) = loc
            /\ SubSeq(row, k + Len(loc) + Len(pad),
                      k + Len(loc) + Len(pad) + Len(sz) - 1) = sz

\* print_row has printed a row whose location and size exceed 40 characters.
C10_Witness ==
    /\ ret.done
    /\ call.fn = "print_row"
    /\ Len(call.loc) + Len(call.sz) > PadWidth
    /\ Len(ret.val.row) > 0

-----------------------------------------------------------------------------
(* The rows of the maps table and what main() reads from them. *)

IX_SSM_ID == 0
IX_OWNER_ID == 1
IX_DOC == 2
IX_MODIFIED_AT == 4

\* t[ix] for a Python tuple t, whose indices start at 0.
At(t, ix) == t[ix + 1]

\* A datetime is modelled as the number of half minutes after
\* 2019-03-01 10:15:00; strftime("%Y-%m-%d %H:%M") drops the seconds.
Strftime(t) ==
    <<"2", "0", "1", "9", "-", "0", "3", "-", "0", "1", " ", "1", "0", ":">>
    \o Str(15 + t \div 2)

Times == 0..MaxTime
Owners == {2, 5, 20}

\* The documents: dicts from keys to values. A location is unicode text of
\* ASCII characters, which str() turns into the same characters.
Docs == {[other |-> 1],
         [schoolLocation |-> <<"a">>],
         [schoolLocation |-> <<"a", "-">>, other |-> 1]}

\* A row of the table: (id, owner, document, created_at, modified_at, name).
\* Ids are unique; the row fetched k-th has id k.
Rows(k) == {<<k, o, d, 0, t, <<"m">>>> : o \in Owners, d \in Docs, t \in Times}

RECURSIVE TablesOf(_)
TablesOf(m) ==
    IF m = 0 THEN {<<>>}
    ELSE {Append(tb, r) : tb \in TablesOf(m - 1), r \in Rows(m)}

Tables == UNION {TablesOf(m) : m \in 0..MaxRecords}

\* sorted(s, key=lambda k: k[ix]): a stable sort, ascending on the key.
RECURSIVE Insert(_, _, _)
Insert(s, x, ix) ==
    IF s = <<>> THEN <<x>>
    ELSE IF At(s[Len(s)], ix) <= At(x, ix) THEN Append(s, x)
    ELSE Append(Insert(SubSeq(s, 1, Len(s) - 1), x, ix), s[Len(s)])

RECURSIVE SortedDescending(_, _)
\* sorted with reverse=True.
SortedDescending(s, ix) ==
    IF s = <<>> THEN <<>>
    ELSE LET rest == SortedDescending(SubSeq(s, 1, Len(s) - 1), ix)
             x == s[Len(s)]
             k == Cardinality({i \in 1..Len(rest) : At(rest[i], ix) >= At(x, ix)})
         IN  SubSeq(rest, 1, k) \o <<x>> \o SubSeq(rest, k + 1, Len(rest))

RECURSIVE Sorted(_, _)
Sorted(s, ix) ==
    IF s = <<>> THEN <<>>
    ELSE Insert(Sorted(SubSeq(s, 1, Len(s) - 1), ix), s[Len(s)], ix)

\* The owners main() excludes.
ExcludedOwners_Only2 == {2}

ExcludedOwners == {2, 20}

\* The test of main()'s if statement.
Included(m) ==
    /\ "schoolLocation" \in DOMAIN At(m, IX_DOC)
    /\ At(m, IX_OWNER_ID) \notin ExcludedOwners

\* n after the loop body has run on m, n += 1 moved out of the if statement.
Counted_Always(k, m) == k + 1

\* n after the loop body has run on m.
Counted(k, m) == IF Included(m) THEN k + 1 ELSE k

KeyLen(k) == CASE k = "schoolLocation" -> 14 [] k = "other" -> 5

\* len(str(d)): the length of "{u'key': value, ...}", a text value being
\* written u'...' and a number in decimal.
DocStrLen(d) ==
    LET item(k) == (KeyLen(k) + 3) + 2 +
                   (IF k = "schoolLocation" THEN Len(d[k]) + 3 ELSE Len(Str(d[k])))
        RECURSIVE Sum(_)
        Sum(ks) == IF ks = {} THEN 0
                   ELSE LET k == CHOOSE x \in ks : TRUE
                        IN  item(k) + Sum(ks \ {k})
    IN  2 + Sum(DOMAIN d) + 2 * (Cardinality(DOMAIN d) - 1)

\* json.dump(d, f, sort_keys=True, indent=4): the items of d in the order
\* of their keys. The layout of the text is not modelled.
JsonDump(d) ==
    LET keys == SelectSeq(<<"other", "schoolLocation">>, LAMBDA k : k \in DOMAIN d)
    IN  [i \in 1..Len(keys) |-> <<keys[i], d[keys[i]]>>]

\* The directory after open(path, "w") and a write of text: the file at path
\* is created or replaced, the other files stay.
WriteFile_Alone(fs, path, text) == [p \in {path} |-> text]

WriteFile(fs, path, text) ==
    [p \in DOMAIN fs \cup {path} |-> IF p = path THEN text ELSE fs[p]]

\* conn.close(): the connections closed so far, and c.
ConnClose_Forgotten(cl, c) == cl

ConnClose(cl, c) == cl \cup {c}

\* conn.cursor() on None raises AttributeError.
CursorFaults(c) == c = 0

-----------------------------------------------------------------------------
(* One run of main(). *)

ConnectingLine == <<"Connecting to ssm database...">>
ErrorLine == <<"error">>
CountLine(k) == <<"number of maps fetched: ">> \o Str(k)
HeaderLine == <<"     Location of school                  Size (bytes)     ",
                "Last modified">>
RuleLine == Rep("_", 74)

Init ==
    /\ pc = "start"
    /\ table \in Tables
    /\ argv1 = <<"d", "/">>
    /\ conn = 0 /\ attempts = 0 /\ opened = {} /\ closed = {}
    /\ maps = <<>> /\ pos = 0 /\ n = 0
    /\ out = <<>> /\ printed = <<>> /\ calls = <<>>
    /\ dirExists \in BOOLEAN
    /\ files = <<>>
    /\ call = NoCall /\ ret = NoRet

\* connect(): psycopg2.connect succeeds and the connection is returned.
ConnectOk ==
    /\ pc = "start"
    /\ attempts' = attempts + 1
    /\ out' = Append(out, ConnectingLine)
    /\ conn' = attempts + 1
    /\ opened' = opened \cup {attempts + 1}
    /\ pc' = "connected"
    /\ UNCHANGED <<table, argv1, closed, maps, pos, n, printed, calls,
                   dirExists, files, call, ret>>

\* connect() without its finally clause: psycopg2.connect raises, the error
\* is printed and raised again.
ConnectFails_Raises ==
    /\ pc = "start"
    /\ attempts' = attempts + 1
    /\ out' = out \o <<ConnectingLine, ErrorLine>>
    /\ conn' = 0
    /\ pc' = "fault_connect"
    /\ UNCHANGED <<table, argv1, opened, closed, maps, pos, n, printed, calls,
                   dirExists, files, call, ret>>

\* connect(): psycopg2.connect raises; the error is printed and the finally
\* clause returns conn, still None.
ConnectFails ==
    /\ pc = "start"
    /\ attempts' = attempts + 1
    /\ out' = out \o <<ConnectingLine, ErrorLine>>
    /\ conn' = 0
    /\ pc' = "connected"
    /\ UNCHANGED <<table, argv1, opened, closed, maps, pos, n, printed, calls,
                   dirExists, files, call, ret>>

\* get_maps after connect(): conn.cursor() on None raises.
GetMapsNoConnection ==
    /\ pc = "connected"
    /\ CursorFaults(conn)
    /\ pc' = "fault_cursor"
    /\ UNCHANGED <<table, argv1, conn, attempts, opened, closed, maps, pos, n,
                   out, printed, calls, dirExists, files, call, ret>>

\* get_maps after connect(): cur.execute or cur.fetchall raises; nothing
\* catches it and conn.close() is not reached.
GetMapsQueryFails ==
    /\ pc = "connected"
    /\ ~CursorFaults(conn)
    /\ pc' = "fault_query"
    /\ UNCHANGED <<table, argv1, conn, attempts, opened, closed, maps, pos, n,
                   out, printed, calls, dirExists, files, call, ret>>

\* get_maps after connect(): the rows are fetched, the cursor and the
\* connection closed, the count printed and the sorted list returned.
GetMapsOk ==
    /\ pc = "connected"
    /\ ~CursorFaults(conn)
    /\ closed' = ConnClose(closed, conn)
    /\ out' = Append(out, CountLine(Len(table)))
    /\ maps' = Sorted(table, IX_MODIFIED_AT)
    /\ pc' = "fetched"
    /\ UNCHANGED <<table, argv1, conn, attempts, opened, pos, n, printed,
                   calls, dirExists, files, call, ret>>

PrintHeader ==
    /\ pc = "fetched"
    /\ out' = out \o <<HeaderLine, RuleLine>>
    /\ pc' = "loop"
    /\ UNCHANGED <<table, argv1, conn, attempts, opened, closed, maps, pos, n,
                   printed, calls, dirExists, files, call, ret>>

\* The row the loop body prints for m, numbered k.
RowOf(m, k) ==
    LET d == At(m, IX_DOC)
    IN  print_row(k, d["schoolLocation"], Str(DocStrLen(d)),
                  Strftime(At(m, IX_MODIFIED_AT)))

PathOf(m) ==
    build_output_file_path(argv1, At(m, IX_DOC)["schoolLocation"], At(m, IX_SSM_ID))

\* The loop body on a record the if statement rejects.
SkipRecord ==
    /\ pc = "loop" /\ pos < Len(maps)
    /\ ~Included(maps[pos + 1])
    /\ pos' = pos + 1
    /\ n' = Counted(n, maps[pos + 1])
    /\ UNCHANGED <<pc, table, argv1, conn, attempts, opened, closed, maps, out,
                   printed, calls, dirExists, files, call, ret>>

\* What every run of the loop body on an included record does before
\* write_map_to_file touches the disk.
Report(m) ==
    /\ pos' = pos + 1
    /\ n' = Counted(n, m)
    /\ out' = Append(out, RowOf(m, n'))
    /\ printed' = Append(printed, <<n', At(m, IX_SSM_ID)>>)
    /\ calls' = Append(calls, At(m, IX_SSM_ID))
    /\ UNCHANGED <<table, argv1, conn, attempts, opened, closed, maps, call, ret>>

\* The loop body on an included record, the file written.
ExportRecord ==
    /\ pc = "loop" /\ pos < Len(maps)
    /\ Included(maps[pos + 1])
    /\ Report(maps[pos + 1])
    /\ dirExists' = TRUE
    /\ files' = WriteFile(files, PathOf(maps[pos + 1]),
                          JsonDump(At(maps[pos + 1], IX_DOC)))
    /\ UNCHANGED pc

\* The loop body on an included record, os.makedirs raising.
ExportMakedirsFails ==
    /\ pc = "loop" /\ pos < Len(maps)
    /\ Included(maps[pos + 1])
    /\ ~dirExists
    /\ Report(maps[pos + 1])
    /\ pc' = "fault_makedirs"
    /\ UNCHANGED <<dirExists, files>>

\* The loop body on an included record, open(path, "w") raising.
ExportOpenFails ==
    /\ pc = "loop" /\ pos < Len(maps)
    /\ Included(maps[pos + 1])
    /\ Report(maps[pos + 1])
    /\ dirExists' = TRUE
    /\ pc' = "fault_open"
    /\ UNCHANGED files

\* The loop body on an included record, json.dump raising after it wrote
\* only a part of the text.
ExportDumpFails ==
    /\ pc = "loop" /\ pos < Len(maps)
    /\ Included(maps[pos + 1])
    /\ Report(maps[pos + 1])
    /\ dirExists' = TRUE
    /\ \E k \in 0..(Len(JsonDump(At(maps[pos + 1], IX_DOC))) - 1) :
          files' = WriteFile(files, PathOf(maps[pos + 1]),
                             SubSeq(JsonDump(At(maps[pos + 1], IX_DOC)), 1, k))
    /\ pc' = "fault_dump"

\* The loop is over and main() returns.
Finish ==
    /\ pc = "loop" /\ pos = Len(maps)
    /\ pc' = "done"
    /\ UNCHANGED <<table, argv1, conn, attempts, opened, closed, maps, pos, n,
                   out, printed, calls, dirExists, files, call, ret>>

Next ==
    \/ ConnectOk
    \/ ConnectFails
    \/ GetMapsNoConnection
    \/ GetMapsQueryFails
    \/ GetMapsOk
    \/ PrintHeader
    \/ SkipRecord
    \/ ExportRecord
    \/ ExportMakedirsFails
    \/ ExportOpenFails
    \/ ExportDumpFails
    \/ Finish

Spec == Init /\ [][Next]_vars

-----------------------------------------------------------------------------
(* Properties of the run. *)

GetMapsFaults == {"fault_cursor", "fault_query"}
WriteFaults == {"fault_makedirs", "fault_open", "fault_dump"}
Fetched == pc \in {"fetched", "loop", "done"} \cup WriteFaults
Ended == pc \in {"done"} \cup GetMapsFaults \cup WriteFaults

HasKey(m) == "schoolLocation" \in DOMAIN m[3]

\* The condition of inclusion: the key is there and the owner is neither 2
\* nor 20.
Qualifies(m) == HasKey(m) /\ m[2] # 2 /\ m[2] # 20

HasRow(m) == \E k \in 1..Len(printed) : printed[k][2] = m[1]
HasCall(m) == \E k \in 1..Len(calls) : calls[k] = m[1]

\* The file of m is in the directory, whole.
FileWritten(m) ==
    /\ HasKey(m)
    /\ PathOf(m) \in DOMAIN files
    /\ files[PathOf(m)] = JsonDump(m[3])

\* The file of m is not in the directory, not even in part.
NoFile(m) == HasKey(m) => PathOf(m) \notin DOMAIN files

\* The position in maps of its k-th qualifying record.
KthQualifying(k) ==
    CHOOSE i \in 1..Len(maps) :
        /\ Qualifies(maps[i])
        /\ Cardinality({j \in 1..i : Qualifies(maps[j])}) = k

C2_CounterCountsIncluded ==
    /\ pc \in {"start", "connected", "fetched"} => n = 0
    /\ n = Cardinality({k \in 1..pos : Qualifies(maps[k])})
    /\ Len(printed) = n
    /\ \A k \in 1..Len(printed) :
          /\ printed[k][1] = k
          /\ printed[k][2] = maps[KthQualifying(k)][1]
          /\ Len(out) = 4 + Len(printed)
          /\ SubSeq(out[4 + k], 5 - Len(Str(k)), 6) = Str(k) \o <<".", " ">>

\* An excluded record was processed, then an included one, numbered 1.
C2_Witness ==
    /\ pc = "done"
    /\ pos = 2
    /\ ~Qualifies(maps[1])
    /\ Qualifies(maps[2])
    /\ printed = <<<<1, maps[2][1]>>>>

Count(s, x) == Cardinality({i \in 1..Len(s) : s[i] = x})

\* C3: the list get_maps returns holds exactly the fetched rows, each as
\* often as it was fetched, in ascending order of modified_at.
C3_SortedPermutation ==
    Fetched =>
        /\ Len(maps) = Len(table)
        /\ \A i \in 1..Len(table) : Count(maps, table[i]) = Count(table, table[i])
        /\ \A i \in 1..(Len(maps) - 1) : maps[i][5] <= maps[i + 1][5]

\* get_maps has returned a list in another order than the rows were fetched.
C3_Witness ==
    /\ pc = "fetched"
    /\ Len(table) = 2
    /\ maps # table

\* Something of the report or of the export has happened.
Reported ==
    \/ \E i \in 1..Len(out) : out[i] = HeaderLine
    \/ printed # <<>>
    \/ calls # <<>>
    \/ files # <<>>

C7_NullHandleFaultsAtFirstUse ==
    /\ (pc = "connected" /\ conn = 0) =>
          /\ out = <<ConnectingLine, ErrorLine>>
          /\ opened = {}
    /\ (conn = 0 /\ pc \notin {"start", "connected"}) => pc = "fault_cursor"
    /\ pc = "fault_cursor" =>
          /\ conn = 0
          /\ attempts = 1
          /\ out = <<ConnectingLine, ErrorLine>>
          /\ maps = <<>> /\ pos = 0 /\ n = 0
          /\ printed = <<>> /\ calls = <<>> /\ files = <<>>
          /\ ~ENABLED Next

\* get_maps has faulted on the null handle, the table not being empty.
C7_Witness ==
    /\ pc = "fault_cursor"
    /\ \E i \in 1..Len(table) : Qualifies(table[i])

\* What holds of the files at every point of the loop: the records processed
\* before the last one have their files, whole, if they qualify, and the
\* records not yet processed have none.
EarlierFilesKept ==
    /\ \A k \in 1..(pos - 1) : Qualifies(maps[k]) => FileWritten(maps[k])
    /\ \A k \in (pos + 1)..Len(maps) : NoFile(maps[k]) /\ ~HasCall(maps[k])

\* The run was stopped by a fault of write_map_to_file at a qualifying record.
StoppedAtWrite ==
    /\ pc \in WriteFaults
    /\ pos >= 1
    /\ Qualifies(maps[pos])
    /\ ~FileWritten(maps[pos])
    /\ calls[Len(calls)] = maps[pos][1]

RowIds == {printed[k][2] : k \in 1..Len(printed)}
WrittenIds == {table[i][1] : i \in {j \in 1..Len(table) : FileWritten(table[j])}}

\* C9 as stated: when a run ends, by completion or by a fault, the rows
\* printed and the records whose files were written correspond one to one.
C9_RowsMatchFilesAlways ==
    Ended =>
        /\ RowIds = WrittenIds
        /\ Cardinality(RowIds) = Len(printed)
        /\ Cardinality(DOMAIN files) = Len(printed)

\* C9 as amended: when a run ends by completion, or by a fault in get_maps,
\* the rows printed and the records whose files were written correspond one
\* to one; when it ends by a fault of write_map_to_file, the rows are those of
\* the records whose files were written and, last, the row of the record at
\* which the fault occurred, whose file was not written.
C9_RowsMatchFilesButLast ==
    /\ (pc = "done" \/ pc \in GetMapsFaults) =>
          /\ RowIds = WrittenIds
          /\ Cardinality(RowIds) = Len(printed)
          /\ Cardinality(DOMAIN files) = Len(printed)
    /\ pc \in WriteFaults =>
          /\ printed # <<>>
          /\ printed[Len(printed)][2] = maps[pos][1]
          /\ ~FileWritten(maps[pos])
          /\ RowIds = WrittenIds \cup {maps[pos][1]}
          /\ Cardinality(RowIds) = Len(printed)
          /\ Cardinality(WrittenIds) = Len(printed) - 1

\* main() has returned after printing two rows and writing two files.
C9_Witness ==
    /\ pc = "done"
    /\ Len(printed) = 2
    /\ Cardinality(WrittenIds) = 2

====
